---- MODULE Spec2Model ----
(***************************************************************************)
(* Model of the qpdb crate as it stands: the Swip enum (buffer/swip.rs),   *)
(* the Page struct (buffer/page.rs), the Error enum (error.rs) and the     *)
(* Database handle (lib.rs).  A client thread drives the public API; each  *)
(* call is one action.                                                     *)
(***************************************************************************)
EXTENDS Integers, Sequences, FiniteSets, TLC

VARIABLES swips, observed, pages, fresh, build, errors, sourced, opened

vars == <<swips, observed, pages, fresh, build, errors, sourced, opened>>

swipVars == <<swips, observed>>
pageVars == <<pages, fresh, build>>
errVars == <<errors, sourced, opened>>

None == [none |-> TRUE]

(* ---- bounds of the model ---- *)
MaxPtr == 2
MaxOffset == 2
MaxSwips == 3
MaxPageId == 1
MaxPages == 2
MaxErrors == 3

(***************************************************************************)
(* buffer/swip.rs                                                          *)
(***************************************************************************)

\* *mut Page: any address, null (0) included.
Ptrs == 0..MaxPtr
\* u64 disk offsets.
Offsets == 0..MaxOffset

\* pub enum Swip { Hot(*mut Page), Cold(u64) }
Swip == [tag : {"Hot"}, ptr : Ptrs] \cup [tag : {"Cold"}, offset : Offsets]

\* Swip::cold(offset)
cold(offset) == [tag |-> "Cold", offset |-> offset]

\* Swip::hot(ptr)
hot(ptr) == [tag |-> "Hot", ptr |-> ptr]

\* A copy-paste slip: is_cold matching the Hot arm.
is_cold_matches_hot(s) == s.tag = "Hot"

\* Swip::is_hot: matches!(self, Swip::Hot(_))
is_hot(s) == s.tag = "Hot"

\* Swip::is_cold: matches!(self, Swip::Cold(_))
is_cold(s) == s.tag = "Cold"

\* The client calls Swip::cold(offset) and keeps the value.
CallCold(offset) ==
    /\ Len(swips) < MaxSwips
    /\ swips' = Append(swips, [ctor |-> "cold", arg |-> offset, swip |-> cold(offset)])
    /\ UNCHANGED <<observed, pageVars, errVars>>

\* The client calls Swip::hot(ptr) and keeps the value.
CallHot(ptr) ==
    /\ Len(swips) < MaxSwips
    /\ swips' = Append(swips, [ctor |-> "hot", arg |-> ptr, swip |-> hot(ptr)])
    /\ UNCHANGED <<observed, pageVars, errVars>>

\* The client calls is_hot() and is_cold() on a Swip it holds.
CallIsHotIsCold(i) ==
    /\ i \in 1..Len(swips)
    /\ observed' = [idx |-> i, hot |-> is_hot(swips[i].swip),
                    cold |-> is_cold(swips[i].swip)]
    /\ UNCHANGED <<swips, pageVars, errVars>>

SwipInit ==
    /\ swips = <<>>
    /\ observed = None

SwipNext ==
    \/ \E offset \in Offsets : CallCold(offset)
    \/ \E ptr \in Ptrs : CallHot(ptr)
    \/ \E i \in 1..MaxSwips : CallIsHotIsCold(i)

(***************************************************************************)
(* buffer/page.rs                                                          *)
(***************************************************************************)

\* pub type PageId = u64 (sampled).
PageIds == 0..MaxPageId

\* The length of Page::data, [u8; 4096].
PAGE_SIZE == 4096
\* #[repr(align(4096))]
ReprAlign == 4096
\* size_of::<u64>()
U64Size == 8
\* size_of::<u8>() and align_of::<u8>()
U8Size == 1

\* align_of::<u64>() is 8 on 64-bit targets and 4 on some 32-bit ones.
U64Aligns == {4, 8}

DataIndex == 0..(PAGE_SIZE - 1)

\* The fields of struct Page, in declaration order.
PageFields(u64align) ==
    <<[name |-> "id", size |-> U64Size, align |-> u64align],
      [name |-> "data", size |-> PAGE_SIZE * U8Size, align |-> U8Size]>>

\* The struct has the default (Rust) representation: the compiler may lay the
\* fields out in either order.
FieldOrders == {<<1, 2>>, <<2, 1>>}

AlignUp(n, a) == ((n + a - 1) \div a) * a

Max(a, b) == IF a >= b THEN a ELSE b

\* The end of the last field when the fields are placed in the given order, each at
\* the next offset that satisfies its own alignment.
RECURSIVE FieldsEnd(_, _, _)
FieldsEnd(fields, order, k) ==
    IF k = 0 THEN 0
    ELSE LET f == fields[order[k]]
         IN  AlignUp(FieldsEnd(fields, order, k - 1), f.align) + f.size

\* align_of::<Page>(): the largest field alignment, raised to repr(align).
align_of_Page(b) ==
    LET fields == PageFields(b.u64align)
    IN  Max(ReprAlign, Max(fields[1].align, fields[2].align))

\* size_of::<Page>(): the end of the last field, rounded up to the alignment.
size_of_Page(b) ==
    AlignUp(FieldsEnd(PageFields(b.u64align), b.order, 2), align_of_Page(b))

\* A slip that hands back the buffer of the page created before (memory that is
\* reused without being cleared).
Page_new_stale(id) ==
    [id |-> id,
     data |-> IF Len(pages) > 0 THEN pages[Len(pages)].data
              ELSE [i \in DataIndex |-> 0]]

\* Page::new(id): Self { id, data: [0; 4096] }
Page_new(id) == [id |-> id, data |-> [i \in DataIndex |-> 0]]

\* The client calls Page::new(id) and keeps the page.
CallPageNew(id) ==
    /\ Len(pages) < MaxPages
    /\ fresh' = [arg |-> id, page |-> Page_new(id)]
    /\ pages' = Append(pages, Page_new(id))
    /\ UNCHANGED <<build, swipVars, errVars>>

\* The offsets and values the client writes through the pub field `data`.
WriteOffsets == {0, PAGE_SIZE - 1}
WriteBytes == {255}

\* The client stores a byte into a page it owns: page.data[off] = b.
WritePageData(i, off, b) ==
    /\ i \in 1..Len(pages)
    /\ pages' = [pages EXCEPT ![i].data[off] = b]
    /\ UNCHANGED <<fresh, build, swipVars, errVars>>

PageInit ==
    /\ pages = <<>>
    /\ fresh = None
    /\ build \in [order : FieldOrders, u64align : U64Aligns]

PageNext ==
    \/ \E id \in PageIds : CallPageNew(id)
    \/ \E i \in 1..MaxPages, off \in WriteOffsets, b \in WriteBytes : WritePageData(i, off, b)

(***************************************************************************)
(* error.rs and lib.rs                                                     *)
(***************************************************************************)

\* std::io::Error values (sampled by kind).
IoErrors == {"NotFound", "UnexpectedEof", "PermissionDenied"}

\* The String carried by Error::Corruption (sampled).
Messages == {"", "bad page"}

\* pub enum Error { Io(std::io::Error), Corruption(String), NotFound }
Error ==
    [variant : {"Io"}, e : IoErrors]
        \cup [variant : {"Corruption"}, msg : Messages]
        \cup {[variant |-> "NotFound"]}

Io(e) == [variant |-> "Io", e |-> e]
Corruption(msg) == [variant |-> "Corruption", msg |-> msg]
NotFound == [variant |-> "NotFound"]

\* Option<&(dyn std::error::Error + 'static)>
Some(x) == [some |-> x]

\* A slip that turns the I/O error into text and so loses it as the source.
from_as_text(err) == Corruption("")

\* impl From<std::io::Error> for Error: Error::Io(err)
from(err) == Io(err)

\* impl std::error::Error for Error: source()
source(self) == IF self.variant = "Io" THEN Some(self.e) ELSE None

\* An I/O error is converted (the conversion `?` applies) and the result kept.
CallFrom(err) ==
    /\ Len(errors) < MaxErrors
    /\ errors' = Append(errors, [made |-> "from", arg |-> err, err |-> from(err)])
    /\ UNCHANGED <<sourced, opened, swipVars, pageVars>>

\* Error::Corruption(msg) is built directly.
MakeCorruption(msg) ==
    /\ Len(errors) < MaxErrors
    /\ errors' = Append(errors, [made |-> "variant", arg |-> msg, err |-> Corruption(msg)])
    /\ UNCHANGED <<sourced, opened, swipVars, pageVars>>

\* Error::NotFound is built directly.
MakeNotFound ==
    /\ Len(errors) < MaxErrors
    /\ errors' = Append(errors, [made |-> "variant", arg |-> "", err |-> NotFound])
    /\ UNCHANGED <<sourced, opened, swipVars, pageVars>>

\* The client asks an error it holds for its source.
CallSource(i) ==
    /\ i \in 1..Len(errors)
    /\ sourced' = [idx |-> i, result |-> source(errors[i].err)]
    /\ UNCHANGED <<errors, opened, swipVars, pageVars>>

\* Database::open(path): todo!() panics; no Result is returned.
CallOpen ==
    /\ opened' = "panicked"
    /\ UNCHANGED <<errors, sourced, swipVars, pageVars>>

ErrInit ==
    /\ errors = <<>>
    /\ sourced = None
    /\ opened = "not called"

ErrNext ==
    \/ \E err \in IoErrors : CallFrom(err)
    \/ \E msg \in Messages : MakeCorruption(msg)
    \/ MakeNotFound
    \/ \E i \in 1..MaxErrors : CallSource(i)
    \/ CallOpen

(***************************************************************************)
(* Specifications                                                          *)
(***************************************************************************)

Init == SwipInit /\ PageInit /\ ErrInit

Next == SwipNext \/ PageNext \/ ErrNext

\* The whole crate.
Spec == Init /\ [][Next]_vars

\* The three parts share no state; each is also checked on its own.
SpecSwip == Init /\ [][SwipNext]_vars
SpecPage == Init /\ [][PageNext]_vars
SpecError == Init /\ [][ErrNext]_vars

TypeOK ==
    /\ \A i \in 1..Len(swips) : swips[i].swip \in Swip
    /\ \A i \in 1..Len(pages) :
          /\ pages[i].id \in PageIds
          /\ DOMAIN pages[i].data = DataIndex
    /\ \A i \in 1..Len(errors) : errors[i].err \in Error
    /\ opened \in {"not called", "panicked"}

(***************************************************************************)
(* Properties                                                              *)
(***************************************************************************)

\* C7: every Swip is in exactly one of the two states Hot and Cold: a Swip made by
\* Swip::hot(ptr) is Hot(ptr), with is_hot() true and is_cold() false; one made by
\* Swip::cold(offset) is Cold(offset), with is_cold() true and is_hot() false; and
\* for every Swip, and in every pair of answers a caller has seen, is_hot() is the
\* negation of is_cold().
C7_SwipIsExactlyHotOrCold ==
    /\ \A i \in 1..Len(swips) :
          LET e == swips[i]
          IN  /\ e.swip \in Swip
              /\ is_hot(e.swip) = ~is_cold(e.swip)
              /\ e.ctor = "hot" =>
                    /\ e.swip = [tag |-> "Hot", ptr |-> e.arg]
                    /\ is_hot(e.swip) /\ ~is_cold(e.swip)
              /\ e.ctor = "cold" =>
                    /\ e.swip = [tag |-> "Cold", offset |-> e.arg]
                    /\ is_cold(e.swip) /\ ~is_hot(e.swip)
    /\ observed # None =>
          /\ observed.hot = ~observed.cold
          /\ observed.hot = (swips[observed.idx].ctor = "hot")

\* C7 witness: a Hot and a Cold swip with the same payload value exist and the
\* caller has queried the Hot one.
C7_Witness ==
    /\ observed # None
    /\ swips[observed.idx].ctor = "hot"
    /\ observed.hot
    /\ \E j \in 1..Len(swips) :
          /\ swips[j].ctor = "cold"
          /\ swips[j].arg = swips[observed.idx].arg

C9_PageOccupiesPageSize ==
    fresh # None =>
        /\ size_of_Page(build) = PAGE_SIZE
        /\ align_of_Page(build) = PAGE_SIZE

\* C10: Page::new(id) returns a page whose id is id and whose 4096 data bytes are
\* all zero, whatever pages were created and written before.
C10_PageNewIsZeroFilled ==
    fresh # None =>
        /\ fresh.page.id = fresh.arg
        /\ DOMAIN fresh.page.data = 0..4095
        /\ \A i \in DOMAIN fresh.page.data : fresh.page.data[i] = 0

\* C10 witness: a page was created after an earlier page had been written to.
C10_Witness ==
    /\ Len(pages) = 2
    /\ fresh # None
    /\ pages[1].data[0] = 255
    /\ pages[1].data[PAGE_SIZE - 1] = 255
    /\ pages[2] = fresh.page
    /\ fresh.arg # pages[1].id

====
